---- MODULE Spec2Model ----
(***************************************************************************)
(* A model of PokeSetSmith's showdown.py: the stat formula (calc_stat),    *)
(* the IV/EV reverse solver (reverse_calc_iv_ev_for_stat), the EV budget   *)
(* clamp (clamp_ev_distribution) and the name resolver (validate_input).   *)
(*                                                                         *)
(* Numbers.  Python's float multipliers 0.9, 1.0 and 1.1 are carried as    *)
(* tenths (9, 10, 11).  math.floor(inner * nature_mult + 1e-9) is computed *)
(* exactly in decimal, the 1e-9 included; the binary representation error  *)
(* of the product (below 2^-40 for operands under 2^12) is far below the   *)
(* 1e-9 that is added and is not modelled.                                 *)
(*                                                                         *)
(* Strings are sequences of one-character strings.                         *)
(***************************************************************************)
EXTENDS Integers, Sequences, FiniteSets, TLC

VARIABLES
    phase,        \* where the program is: "init", then a position inside one call
    base,         \* calc_stat / reverse solver argument
    iv,           \* calc_stat argument
    ev,           \* calc_stat argument
    level,        \* calc_stat / reverse solver argument
    nature_mult,  \* multiplier in tenths: 9, 10 or 11
    is_hp,        \* calc_stat / reverse solver argument
    stat,         \* value returned by calc_stat
    observed,     \* observed stat handed to the reverse solver
    max_iv,       \* reverse solver argument
    sol,          \* the solver's return value: <<iv, ev>>, or None
    fixed_sol,    \* generate_set's fixed-IV scan: <<iv_assumed, found_ev>>, or None
    outcome,      \* how the last stat call ended: "returned" or "invalid_argument"
    keys,         \* the keys of the dict handed to clamp_ev_distribution, in insertion order
    evs,          \* its values, in the same order: the one dict object, changed in place
    evs_in,       \* the values that dict held when the current call was made
    total,        \* clamp_ev_distribution's local total
    ev_list,      \* clamp_ev_distribution's local snapshot list(evs.items()) (the values)
    calls,        \* the completed calls of clamp_ev_distribution: [arg, ret] each
    user_input,   \* validate_input argument
    valid_list,   \* validate_input argument: the canonical names
    autocorrect_mode, \* validate_input argument: 1 prompt, 2 silent, 3 off
    close,        \* validate_input's local list of suggestions
    offer,        \* prompt mode: the position in close of the suggestion being offered
    asked,        \* prompt mode: the suggestions offered so far, in order
    answers,      \* prompt mode: the user's answers so far (TRUE: starts with y)
    result,       \* the string validate_input returned
    settings,     \* main's settings dict: the one object, edited in place by the menu
    settings_at_entry, \* its contents when settings_menu was last entered
    settings_json,     \* the contents of settings.json
    ribbons,      \* the source of the ribbon lists in memory
    visits,       \* how many times the settings menu has been entered
    left_by       \* the choice that ended the last visit: "s" or "x"

statVars == <<base, iv, ev, level, nature_mult, is_hp, stat, observed, max_iv, sol, fixed_sol, outcome>>
clampVars == <<keys, evs, evs_in, total, ev_list, calls>>
nameVars == <<user_input, valid_list, autocorrect_mode, close, offer, asked, answers, result>>
menuVars == <<settings, settings_at_entry, settings_json, ribbons, visits, left_by>>
vars == <<phase, statVars, clampVars, nameVars, menuVars>>

-----------------------------------------------------------------------------
(* Bounds of the model *)

\* Base stats 0..MaxBase are explored, beside the two bases of the spec's scenarios.
MaxBase == 1
\* Levels 1..MaxLowLevel are explored, beside levels 50 and 100.
MaxLowLevel == 1
\* Observed values 0..MaxObserved can be typed in by the user.
MaxObserved == 60
\* Known IVs 0..MaxKnownIV are explored as max_iv, beside the default 31.
MaxKnownIV == 1
\* Arguments outside the preconditions lie at most MaxOutside beyond a range's end.
MaxOutside == 1
\* The settings menu is entered at most MaxVisits times.
MaxVisits == 2
\* EVs handed to the clamp are 0, 4, or 252 less up to MaxEvDrop steps of 4.
MaxEvDrop == 1
\* Raw inputs are the strings of up to MaxRawLen characters.
MaxRawLen == 3
\* Canonical lists hold 1..MaxListLen names.
MaxListLen == 2

BaseStats == (0..MaxBase) \cup {50, 100}
Levels == (1..MaxLowLevel) \cup {50, 100}
NatureMults == {9, 10, 11}
IVs == 0..31
EVs == 0..252
MaxIVs == (0..MaxKnownIV) \cup {31}

\* Arguments up to MaxOutside beyond each end of the ranges of the preconditions
\* (level 1..100, iv and max_iv 0..31, ev 0..252, base >= 0), with the ends themselves.
AnyLevels == {1, 100} \cup {1 - d : d \in 1..MaxOutside} \cup {100 + d : d \in 1..MaxOutside}
AnyIVs == {0, 31} \cup {0 - d : d \in 1..MaxOutside} \cup {31 + d : d \in 1..MaxOutside}
AnyMaxIVs == AnyIVs
AnyEVs == {0, 252} \cup {0 - d : d \in 1..MaxOutside} \cup {252 + d : d \in 1..MaxOutside}
AnyBases == {0, 50} \cup {0 - d : d \in 1..MaxOutside}

\* Python's None
None == <<>>

-----------------------------------------------------------------------------
(* Stat math *)

\* math.floor(x * nature_mult + 1e-9) for an integer x >= 0 and nature_mult in tenths:
\* x * nature_mult / 10 = q + r/10, and floor(r/10 + 1e-9) = floor((r * 10^8 + 1) / 10^9).
FloorMultEps(x, mult) ==
    LET p == x * mult
        q == p \div 10
        r == p % 10
    IN  q + ((r * 100000000 + 1) \div 1000000000)

\* calc_stat with the last step rounded to nearest instead of truncated.
calc_stat_rounding(b, i, e, lvl, mult, hp) ==
    IF hp
    THEN (((2 * b + i + (e \div 4)) * lvl) \div 100) + lvl + 10
    ELSE LET inner == (((2 * b + i + (e \div 4)) * lvl) \div 100) + 5
         IN  (inner * mult + 5) \div 10

calc_stat(b, i, e, lvl, mult, hp) ==
    IF hp
    THEN (((2 * b + i + (e \div 4)) * lvl) \div 100) + lvl + 10
    ELSE LET inner == (((2 * b + i + (e \div 4)) * lvl) \div 100) + 5
         IN  FloorMultEps(inner, mult)

\* range(0, 253, 4)
EvRange == {4 * k : k \in 0..63}

\* The same loops with the EV range cut one step short: range(0, 252, 4).
MatchingPairs_short_ev_range(obs, b, lvl, mult, hp, maxiv) ==
    {p \in (0..maxiv) \X (EvRange \ {252}) : calc_stat(b, p[1], p[2], lvl, mult, hp) = obs}

\* The list built by the two nested loops: every (iv, ev) whose stat equals observed
\* (a set here: the loops append each pair at most once).
MatchingPairs(obs, b, lvl, mult, hp, maxiv) ==
    {p \in (0..maxiv) \X EvRange : calc_stat(b, p[1], p[2], lvl, mult, hp) = obs}

Min(S) == CHOOSE x \in S : \A y \in S : x <= y

\* The same sort with the key (x[0], x[1]): lowest IV first.
SortedFirst_lowest_iv(S) ==
    LET k1 == Min({p[1] : p \in S})
        k2 == Min({p[2] : p \in {q \in S : q[1] = k1}})
    IN  <<k1, k2>>

\* solutions.sort(key=lambda x: (-x[0], x[1])); solutions[0]:
\* the pair with the least key, keys compared as tuples (first component, then second).
SortedFirst(S) ==
    LET k1 == Min({-p[1] : p \in S})
        k2 == Min({p[2] : p \in {q \in S : -q[1] = k1}})
    IN  <<-k1, k2>>

\* A solver that falls back to a default pair instead of returning None.
reverse_calc_default_pair(obs, b, lvl, mult, hp, maxiv) ==
    LET found == MatchingPairs(obs, b, lvl, mult, hp, maxiv)
    IN  IF found = {} THEN <<maxiv, 0>> ELSE SortedFirst(found)

reverse_calc_iv_ev_for_stat(obs, b, lvl, mult, hp, maxiv) ==
    LET found == MatchingPairs(obs, b, lvl, mult, hp, maxiv)
    IN  IF found = {} THEN None ELSE SortedFirst(found)

\* The scan of lines 590-595 without its break: the last matching EV is kept.
fixed_iv_scan_no_break(obs, b, lvl, mult, hp, iv_assumed) ==
    LET found == {e \in EvRange : calc_stat(b, iv_assumed, e, lvl, mult, hp) = obs}
    IN  IF found = {} THEN None ELSE <<iv_assumed, 0 - Min({0 - e : e \in found})>>

\* for ev in range(0, 253, 4): the first EV whose stat at iv_assumed is the observed
\* one, break; found_ev stays None when there is none (lines 589-595)
fixed_iv_scan(obs, b, lvl, mult, hp, iv_assumed) ==
    LET found == {e \in EvRange : calc_stat(b, iv_assumed, e, lvl, mult, hp) = obs}
    IN  IF found = {} THEN None ELSE <<iv_assumed, Min(found)>>

-----------------------------------------------------------------------------
(* Settings *)

DEFAULT_RIBBON_URL == "default_url"

DEFAULT_SETTINGS ==
    [check_for_ribbon_updates_on_startup |-> TRUE,
     ribbon_source_url |-> DEFAULT_RIBBON_URL,
     autocorrect_mode |-> "prompt",
     default_iv_value |-> 31,
     auto_calculate_ivs_from_observed_stats |-> TRUE,
     showdown_export_format |-> "standard",
     language |-> "en",
     include_ribbons_if_none |-> TRUE,
     offline_mode |-> FALSE,
     immediate_ribbon_reload_on_url_change |-> TRUE]

\* What the user types for a new ribbon source URL: nothing, or a URL.
TypedUrls == {"", "new_url"}

\* What the user types for the default IV: <<>> for nothing or for text that int()
\* rejects, <<n>> for the number n.
TypedIVs == {<<>>, <<0>>, <<31>>, <<32>>}

\* cycle = {'prompt':'silent','silent':'off','off':'prompt'}; cycle.get(cur,'prompt')
NextAutocorrectMode(cur) ==
    CASE cur = "prompt" -> "silent" [] cur = "silent" -> "off" [] cur = "off" -> "prompt"
      [] OTHER -> "prompt"

-----------------------------------------------------------------------------
(* EV budget clamp *)

STAT_KEYS == <<"hp", "atk", "def", "spa", "spd", "spe">>

EvInputs == {0, 4} \cup {252 - 4 * k : k \in 0..MaxEvDrop}

RECURSIVE SumFrom(_, _)
SumFrom(vs, i) == IF i > Len(vs) THEN 0 ELSE vs[i] + SumFrom(vs, i + 1)
\* sum(evs.values())
Sum(vs) == SumFrom(vs, 1)

\* The dicts handed to the clamp, keys and values in insertion order: generate_set builds
\* its dict in STAT_KEYS order (line 557); the dict of the spec's scenario 5, written as a
\* literal, iterates in the order it is written.
ClampInputs ==
    {<<STAT_KEYS, vs>> : vs \in [1..6 -> EvInputs]}
        \cup {<<(<<"atk", "spa", "spe", "hp", "def", "spd">>), (<<252, 252, 252, 0, 0, 0>>)>>}

\* The dict as a mapping from key to value.
AsMapping(ks, vs) == [k \in {ks[i] : i \in 1..Len(ks)} |-> vs[CHOOSE i \in 1..Len(ks) : ks[i] = k]]

\* A scan that stops at the first stat holding any EV, whatever the others hold.
RECURSIVE ScanMax_first_positive(_, _, _, _)
ScanMax_first_positive(list, i, stat_to_reduce, max_ev) ==
    IF i > Len(list) THEN <<stat_to_reduce, max_ev>>
    ELSE IF list[i] > 0 THEN <<i, list[i]>>
    ELSE ScanMax_first_positive(list, i + 1, stat_to_reduce, max_ev)

\* The scan with >= for >: among equal maxima the last one is kept.
RECURSIVE ScanMax_last_maximum(_, _, _, _)
ScanMax_last_maximum(list, i, stat_to_reduce, max_ev) ==
    IF i > Len(list) THEN <<stat_to_reduce, max_ev>>
    ELSE IF list[i] >= max_ev /\ list[i] > 0 THEN ScanMax_last_maximum(list, i + 1, i, list[i])
    ELSE ScanMax_last_maximum(list, i + 1, stat_to_reduce, max_ev)

\* The scan "for s, v in ev_list: if v > max_ev: ..." from position i on; the stat is
\* named by its position in the dict (0: stat_to_reduce is None).
RECURSIVE ScanMax(_, _, _, _)
ScanMax(list, i, stat_to_reduce, max_ev) ==
    IF i > Len(list) THEN <<stat_to_reduce, max_ev>>
    ELSE IF list[i] > max_ev THEN ScanMax(list, i + 1, i, list[i])
    ELSE ScanMax(list, i + 1, stat_to_reduce, max_ev)

\* The early return taken one step above the cap.
WithinBudget_step_above(t) == t <= 512

\* The early return of line 321.
WithinBudget(t) == t <= 510

\* The loop condition with the cap off by a step.
LoopContinues_below_cap(t) == t >= 508

\* The loop condition of line 327.
LoopContinues(t) == t > 510

\* A reduction that is not a whole EV step.
ReducedValue_by_six(v) == IF v - 6 > 0 THEN v - 6 ELSE 0

\* max(0, evs[stat_to_reduce] - 4)
ReducedValue(v) == IF v - 4 > 0 THEN v - 4 ELSE 0

\* The line total -= 4 left out.
TotalAfterStep_stale(t) == t

\* The local total drifting from the real sum: total -= 8.
TotalAfterStep_by_eight(t) == t - 8

\* total -= 4
TotalAfterStep(t) == t - 4

-----------------------------------------------------------------------------
(* Strings: Python's str methods on sequences of characters *)

\* The characters a user types, and the characters of the canonical names.
RawChars == {"a", "b", "A", " ", "_"}

Lower(c) == CASE c = "A" -> "a" [] c = "B" -> "b" [] OTHER -> c
Upper(c) == CASE c = "a" -> "A" [] c = "b" -> "B" [] OTHER -> c
IsCased(c) == c \in {"a", "b", "A", "B"}
\* The code point, which orders strings.
Ord(c) == CASE c = " " -> 32 [] c = "A" -> 65 [] c = "B" -> 66
            [] c = "_" -> 95 [] c = "a" -> 97 [] c = "b" -> 98

\* s.lower()
str_lower(s) == [i \in 1..Len(s) |-> Lower(s[i])]

RECURSIVE str_lstrip(_)
str_lstrip(s) == IF s # <<>> /\ Head(s) = " " THEN str_lstrip(Tail(s)) ELSE s
RECURSIVE str_rstrip(_)
str_rstrip(s) ==
    IF s # <<>> /\ s[Len(s)] = " " THEN str_rstrip(SubSeq(s, 1, Len(s) - 1)) ELSE s
\* s.strip()
str_strip(s) == str_rstrip(str_lstrip(s))

\* s.replace("_", " ")
str_replace_underscore(s) == [i \in 1..Len(s) |-> IF s[i] = "_" THEN " " ELSE s[i]]

\* s.title(): a cased character is uppercased after an uncased one (or at the start)
\* and lowercased after a cased one.
str_title(s) ==
    [i \in 1..Len(s) |->
        IF i > 1 /\ IsCased(s[i - 1]) THEN Lower(s[i]) ELSE Upper(s[i])]

\* sub in s
str_contains(sub, s) ==
    \E i \in 0..(Len(s) - Len(sub)) : SubSeq(s, i + 1, i + Len(sub)) = sub

\* s < t for strings: the first differing code point decides, a proper prefix is smaller.
str_less(s, t) ==
    \E i \in 1..(Len(t)) :
        /\ \A d \in 1..(i - 1) : d <= Len(s) /\ s[d] = t[d]
        /\ (i > Len(s) /\ Len(s) = i - 1) \/ (i <= Len(s) /\ Ord(s[i]) < Ord(t[i]))

title_case_showdown(s) == str_title(str_replace_underscore(str_strip(s)))

-----------------------------------------------------------------------------
(* difflib.get_close_matches, as validate_input calls it (no junk, n = 3, cutoff 0.65) *)

\* a[i..i+k-1] = b[j..j+k-1]
IsBlock(a, b, i, j, k) ==
    /\ i + k - 1 <= Len(a) /\ j + k - 1 <= Len(b)
    /\ \A d \in 0..(k - 1) : a[i + d] = b[j + d]

\* SequenceMatcher.find_longest_match: the longest common block; of the longest, the one
\* starting earliest in a, and of those the one starting earliest in b. <<i, j, k>>.
find_longest_match(a, b) ==
    LET sizes == {k \in 1..Len(a) : \E i \in 1..Len(a), j \in 1..Len(b) : IsBlock(a, b, i, j, k)}
    IN  IF sizes = {} THEN <<1, 1, 0>>
        ELSE LET k == CHOOSE x \in sizes : \A y \in sizes : y <= x
                 i == Min({x \in 1..Len(a) : \E j \in 1..Len(b) : IsBlock(a, b, x, j, k)})
                 j == Min({y \in 1..Len(b) : IsBlock(a, b, i, y, k)})
             IN  <<i, j, k>>

\* SequenceMatcher.get_matching_blocks, summed: the longest block, then the same to its
\* left and to its right.
RECURSIVE MatchCount(_, _)
MatchCount(a, b) ==
    IF Len(a) = 0 \/ Len(b) = 0 THEN 0
    ELSE LET m == find_longest_match(a, b)
         IN  IF m[3] = 0 THEN 0
             ELSE m[3] + MatchCount(SubSeq(a, 1, m[1] - 1), SubSeq(b, 1, m[2] - 1))
                       + MatchCount(SubSeq(a, m[1] + m[3], Len(a)), SubSeq(b, m[2] + m[3], Len(b)))

\* SequenceMatcher(None, x, word).ratio() = 2.0 * M / T as the fraction <<2M, T>>
\* (1.0 when both are empty).
Ratio(x, word) ==
    IF Len(x) + Len(word) = 0 THEN <<1, 1>>
    ELSE <<2 * MatchCount(x, word), Len(x) + Len(word)>>

\* cutoff=0.65, in hundredths
CutoffPercent == 65
\* n=3
MaxSuggestions == 3

\* The tuple (s.ratio(), x) that get_close_matches keeps for x, as <<2M, T, x>>.
Scored(x, word) == LET r == Ratio(x, word) IN <<r[1], r[2], x>>

\* ratio() >= cutoff (quick_ratio and real_quick_ratio are upper bounds of ratio, so
\* the three tests of get_close_matches pass together or ratio's fails).
ClearsCutoff(p) == 100 * p[1] >= CutoffPercent * p[2]

\* (score, x) < (score', y) as Python compares the tuples get_close_matches ranks.
ScoredLess(p, q) ==
    \/ p[1] * q[2] < q[1] * p[2]
    \/ p[1] * q[2] = q[1] * p[2] /\ str_less(p[3], q[3])

\* heapq.nlargest(n, result), then [x for score, x in result]: the n largest, largest first.
RECURSIVE NLargest(_, _)
NLargest(n, S) ==
    IF n = 0 \/ S = {} THEN <<>>
    ELSE LET top == CHOOSE p \in S : \A q \in S \ {p} : ScoredLess(q, p)
         IN  <<top[3]>> \o NLargest(n - 1, S \ {top})

get_close_matches(word, possibilities) ==
    NLargest(MaxSuggestions,
             {p \in {Scored(possibilities[i], word) : i \in 1..Len(possibilities)} : ClearsCutoff(p)})

-----------------------------------------------------------------------------
(* validate_input *)

\* low_map with the lower-cased key kept as the value.
LowMapGet_lowered(list, key) == key

\* low_map = {v.lower(): v for v in valid_list}; low_map[key]: a later entry overwrites an
\* earlier one with the same lower-cased form.
LowMapGet(list, key) ==
    list[CHOOSE i \in 1..Len(list) :
            /\ str_lower(list[i]) = key
            /\ \A j \in (i + 1)..Len(list) : str_lower(list[j]) # key]

\* key in low_map
LowMapHas(list, key) == \E i \in 1..Len(list) : str_lower(list[i]) = key

\* [v for v in valid_list if u_norm.lower() in v.lower()], in list order
RECURSIVE SubstringMatchesFrom(_, _, _)
SubstringMatchesFrom(list, key, i) ==
    IF i > Len(list) THEN <<>>
    ELSE IF str_contains(key, str_lower(list[i]))
         THEN <<list[i]>> \o SubstringMatchesFrom(list, key, i + 1)
         ELSE SubstringMatchesFrom(list, key, i + 1)

\* seq[:3]
FirstThree(seq) == SubSeq(seq, 1, IF Len(seq) < 3 THEN Len(seq) ELSE 3)

\* Lines 250-255: the fuzzy matches or, when there are none, the substring matches.
Suggestions(t, u_norm, list) ==
    LET fuzzy == get_close_matches(t, list)
    IN  IF fuzzy = <<>> THEN FirstThree(SubstringMatchesFrom(list, str_lower(u_norm), 1))
        ELSE fuzzy

\* The test of line 256 without the mode.
AcceptAsIs_ignoring_mode(suggestions, mode) == suggestions = <<>>

\* not close or autocorrect_mode == 3
AcceptAsIs(suggestions, mode) == suggestions = <<>> \/ mode = 3

\* Silent mode taking the last suggestion.
SilentChoice_last(suggestions) == suggestions[Len(suggestions)]

\* close[0]
SilentChoice(suggestions) == suggestions[1]

\* Lines 256-267, with close computed: the return of the off and silent modes and of an
\* empty close, or the first question of the prompt mode.
ApplyPolicy(u, c, mode) ==
    IF AcceptAsIs(c, mode) THEN [returns |-> TRUE, value |-> u, close |-> c]
    ELSE IF mode = 2 THEN [returns |-> TRUE, value |-> SilentChoice(c), close |-> c]
    ELSE [returns |-> FALSE, value |-> <<>>, close |-> c]

\* The loop of lines 273-276 returning the first suggestion whichever one was accepted.
AcceptedSuggestion_first(suggestions, k) == suggestions[1]

\* return suggestion (line 270) and return s (line 276): the suggestion just accepted
AcceptedSuggestion(suggestions, k) == suggestions[k]

\* validate_input up to its first return or its first input(): what it returns (or that
\* it prompts), and its local list close at that point.
validate_input(raw, list, mode) ==
    IF raw = <<>> THEN [returns |-> TRUE, value |-> raw, close |-> <<>>]
    ELSE
    LET u == str_strip(raw)
        u_norm == str_strip(str_replace_underscore(u))
        t == title_case_showdown(u_norm)
    IN  IF LowMapHas(list, str_lower(u_norm))
        THEN [returns |-> TRUE, value |-> LowMapGet(list, str_lower(u_norm)), close |-> <<>>]
        ELSE IF \E i \in 1..Len(list) : list[i] = t
        THEN [returns |-> TRUE, value |-> t, close |-> <<>>]
        ELSE ApplyPolicy(u, Suggestions(t, u_norm, list), mode)

-----------------------------------------------------------------------------
(* Initial state and the stat actions *)

Init ==
    /\ phase = "init"
    /\ base = 0 /\ iv = 0 /\ ev = 0 /\ level = 1 /\ nature_mult = 10 /\ is_hp = FALSE
    /\ stat = 0
    /\ observed = 0
    /\ max_iv = 31
    /\ sol = None
    /\ fixed_sol = None
    /\ outcome = "none"
    /\ keys = STAT_KEYS
    /\ evs = [i \in 1..6 |-> 0]
    /\ evs_in = [i \in 1..6 |-> 0]
    /\ total = 0
    /\ ev_list = <<>>
    /\ calls = <<>>
    /\ user_input = <<>>
    /\ valid_list = <<>>
    /\ autocorrect_mode = 1
    /\ close = <<>>
    /\ offer = 0
    /\ asked = <<>>
    /\ answers = <<>>
    /\ result = <<>>
    /\ settings = DEFAULT_SETTINGS
    /\ settings_at_entry = DEFAULT_SETTINGS
    /\ settings_json = DEFAULT_SETTINGS
    /\ ribbons = DEFAULT_RIBBON_URL
    /\ visits = 0
    /\ left_by = "none"

\* A call of calc_stat inside its preconditions.
CalcStat ==
    /\ phase = "init"
    /\ \E b \in BaseStats, i \in IVs, e \in EVs, lvl \in Levels, m \in NatureMults, hp \in BOOLEAN :
        /\ base' = b /\ iv' = i /\ ev' = e /\ level' = lvl /\ nature_mult' = m /\ is_hp' = hp
        /\ stat' = calc_stat(b, i, e, lvl, m, hp)
    /\ phase' = "calc_done"
    /\ outcome' = "returned"
    /\ UNCHANGED <<observed, max_iv, sol, fixed_sol>>
    /\ UNCHANGED <<clampVars, nameVars, menuVars>>

\* The game shows the stat of a creature whose IV and EV are hidden from the program:
\* the observed value is the formula's value for some legal (iv, ev).
ObserveInGame ==
    /\ phase = "init"
    /\ \E b \in BaseStats, lvl \in Levels, m \in NatureMults, hp \in BOOLEAN :
        /\ base' = b /\ level' = lvl /\ nature_mult' = m /\ is_hp' = hp
        /\ \E i \in IVs, e \in EvRange : observed' = calc_stat(b, i, e, lvl, m, hp)
    /\ phase' = "observed_in_game"
    /\ UNCHANGED <<iv, ev, stat, max_iv, sol, fixed_sol, outcome>>
    /\ UNCHANGED <<clampVars, nameVars, menuVars>>

\* The user types any observed value (generate_set reads it with int()).
EnterObserved ==
    /\ phase = "init"
    /\ \E b \in BaseStats, lvl \in Levels, m \in NatureMults, hp \in BOOLEAN :
        base' = b /\ level' = lvl /\ nature_mult' = m /\ is_hp' = hp
    /\ \E v \in 0..MaxObserved : observed' = v
    /\ phase' = "observed_typed"
    /\ UNCHANGED <<iv, ev, stat, max_iv, sol, fixed_sol, outcome>>
    /\ UNCHANGED <<clampVars, nameVars, menuVars>>

\* A call of reverse_calc_iv_ev_for_stat on the observed value.
ReverseCalc ==
    /\ phase \in {"observed_in_game", "observed_typed"}
    /\ \E k \in MaxIVs :
        /\ max_iv' = k
        /\ sol' = reverse_calc_iv_ev_for_stat(observed, base, level, nature_mult, is_hp, k)
    /\ phase' = IF phase = "observed_in_game" THEN "solved_in_game" ELSE "solved_typed"
    /\ outcome' = "returned"
    /\ UNCHANGED <<base, iv, ev, level, nature_mult, is_hp, stat, observed, fixed_sol>>
    /\ UNCHANGED <<clampVars, nameVars, menuVars>>

NextStat == CalcStat
SpecStat == Init /\ [][NextStat]_vars

\* generate_set's scan with the IV assumed (lines 588-602), on the same observed value
\* and with the known IV that the solver was given as max_iv.
FixedIVScan ==
    /\ phase \in {"solved_in_game", "solved_typed"}
    /\ fixed_sol' = fixed_iv_scan(observed, base, level, nature_mult, is_hp, max_iv)
    /\ phase' = IF phase = "solved_in_game" THEN "scanned_in_game" ELSE "scanned_typed"
    /\ UNCHANGED <<base, iv, ev, level, nature_mult, is_hp, stat, observed, max_iv, sol, outcome>>
    /\ UNCHANGED <<clampVars, nameVars, menuVars>>

NextSolve == ObserveInGame \/ EnterObserved \/ ReverseCalc \/ FixedIVScan
SpecSolve == Init /\ [][NextSolve]_vars

\* A call of calc_stat with arguments inside or outside its preconditions: the function
\* checks none of them, computes the formula and returns its value.
CalcStatAnyArgs ==
    /\ phase = "init"
    /\ \E b \in AnyBases, i \in AnyIVs, e \in AnyEVs, lvl \in AnyLevels,
          m \in NatureMults, hp \in BOOLEAN :
        /\ base' = b /\ iv' = i /\ ev' = e /\ level' = lvl /\ nature_mult' = m /\ is_hp' = hp
        /\ stat' = calc_stat(b, i, e, lvl, m, hp)
    /\ outcome' = "returned"
    /\ phase' = "calc_any_done"
    /\ UNCHANGED <<observed, max_iv, sol, fixed_sol>>
    /\ UNCHANGED <<clampVars, nameVars, menuVars>>

\* A call of reverse_calc_iv_ev_for_stat with arguments inside or outside its
\* preconditions, on a value the formula gives for these arguments: it checks none of
\* them, runs its loops and returns a pair or None.
ReverseCalcAnyArgs ==
    /\ phase = "init"
    /\ \E b \in AnyBases, lvl \in AnyLevels, m \in NatureMults, hp \in BOOLEAN,
          k \in AnyMaxIVs :
        /\ base' = b /\ level' = lvl /\ nature_mult' = m /\ is_hp' = hp /\ max_iv' = k
        /\ \E i \in {0, 31}, e \in {0, 252} :
            \E obs \in {calc_stat(b, i, e, lvl, m, hp)} :
                /\ observed' = obs
                /\ sol' = reverse_calc_iv_ev_for_stat(obs, b, lvl, m, hp, k)
    /\ outcome' = "returned"
    /\ phase' = "solve_any_done"
    /\ UNCHANGED <<iv, ev, stat, fixed_sol>>
    /\ UNCHANGED <<clampVars, nameVars, menuVars>>

NextArgs == CalcStatAnyArgs \/ ReverseCalcAnyArgs
SpecArgs == Init /\ [][NextArgs]_vars

-----------------------------------------------------------------------------
(* Claims about the stat formula and the reverse solver *)

\* floor(n / d) for n >= 0, d > 0, stated by its defining inequalities.
IsFloorOf(q, n, d) == q * d <= n /\ n < (q + 1) * d

\* C1: inside the preconditions calc_stat returns raw + level + 10 for HP (the multiplier
\* ignored) and floor((raw + 5) * multiplier) otherwise, raw = floor((2*base + iv +
\* floor(ev/4)) * level / 100), every floor a truncation; the two scenarios give 328 and 404.
C1_StatFormula ==
    phase = "calc_done" =>
        LET q4 == CHOOSE q \in 0..63 : IsFloorOf(q, ev, 4)
            X == 2 * base + iv + q4
            raw == (X * level) \div 100
        IN  /\ IsFloorOf(raw, X * level, 100)
            /\ is_hp => stat = raw + level + 10
            /\ ~is_hp => IsFloorOf(stat, (raw + 5) * nature_mult, 10)
            /\ (base = 100 /\ iv = 31 /\ ev = 252 /\ level = 100) =>
                    /\ (nature_mult = 11 /\ ~is_hp) => stat = 328
                    /\ (nature_mult = 10 /\ is_hp) => stat = 404

C1_Witness ==
    /\ phase = "calc_done"
    /\ base = 100 /\ iv = 31 /\ ev = 252 /\ level = 100 /\ nature_mult = 11 /\ ~is_hp
    /\ stat = 328

\* C2: round trip: the solver, run with max_iv = 31 on a value the formula produced from
\* some iv in 0..31 and ev in {0,4,...,252}, never returns None, and the pair it returns
\* reproduces the observed value.
C2_RoundTrip ==
    (phase = "solved_in_game" /\ max_iv = 31) =>
        /\ sol # None
        /\ sol[1] \in IVs /\ sol[2] \in EvRange
        /\ calc_stat(base, sol[1], sol[2], level, nature_mult, is_hp) = observed

C2_Witness ==
    /\ phase = "solved_in_game" /\ max_iv = 31
    /\ base = 100 /\ level = 100 /\ nature_mult = 11 /\ ~is_hp /\ observed = 328
    /\ sol = <<31, 252>>

\* C3: among the pairs (iv in 0..max_iv, ev in {0,4,...,252}) that reproduce the observed
\* value the solver returns the one with the highest iv and, at that iv, the lowest ev;
\* observed 80 at base 50, level 50, neutral, non-HP gives (31, 76); observed 328 at
\* base 100, level 100, 1.1, non-HP gives (31, 252), the only matching pair.
C3_TieBreak ==
    (phase \in {"solved_in_game", "solved_typed"} /\ sol # None) =>
        /\ \A i \in 0..max_iv, e \in EvRange :
              calc_stat(base, i, e, level, nature_mult, is_hp) = observed =>
                  (i < sol[1] \/ (i = sol[1] /\ e >= sol[2]))
        /\ (observed = 80 /\ base = 50 /\ level = 50 /\ nature_mult = 10 /\ ~is_hp /\ max_iv = 31)
              => sol = <<31, 76>>
        /\ (observed = 328 /\ base = 100 /\ level = 100 /\ nature_mult = 11 /\ ~is_hp /\ max_iv = 31)
              => /\ sol = <<31, 252>>
                 /\ \A i \in 0..31, e \in EvRange :
                       calc_stat(base, i, e, level, nature_mult, is_hp) = observed
                           => <<i, e>> = <<31, 252>>

C3_Witness ==
    /\ phase = "solved_in_game" /\ max_iv = 31
    /\ observed = 80 /\ base = 50 /\ level = 50 /\ nature_mult = 10 /\ ~is_hp
    /\ sol = <<31, 76>>
    /\ calc_stat(50, 30, 84, 50, 10, FALSE) = 80
    /\ calc_stat(50, 31, 80, 50, 10, FALSE) = 80

\* C4: the solver returns None exactly when no pair (iv in 0..max_iv, ev in {0,4,...,252})
\* reproduces the observed value; what it returns otherwise is a pair of that domain that
\* reproduces it, wherever in the scan the only match lies.
C4_NoneIffNoMatch ==
    phase \in {"solved_in_game", "solved_typed"} =>
        /\ sol = None <=>
              ~ \E i \in 0..max_iv, e \in EvRange :
                    calc_stat(base, i, e, level, nature_mult, is_hp) = observed
        /\ sol # None =>
              /\ sol[1] \in 0..max_iv /\ sol[2] \in EvRange
              /\ calc_stat(base, sol[1], sol[2], level, nature_mult, is_hp) = observed

C4_Witness ==
    /\ phase = "solved_typed" /\ max_iv = 31
    /\ base = 0 /\ level = 50 /\ nature_mult = 11 /\ ~is_hp /\ observed = 10
    /\ sol = None

-----------------------------------------------------------------------------
(* The clamp actions *)

\* Lines 320-325 on the dict <<ks, vs>>: the total, the early return, the first snapshot.
EnterClamp(ks, vs) ==
    /\ keys' = ks
    /\ evs' = vs
    /\ evs_in' = vs
    /\ total' = Sum(vs)
    /\ IF WithinBudget(Sum(vs))
       THEN /\ ev_list' = <<>>
            /\ calls' = Append(calls, [arg |-> vs, ret |-> vs])
            /\ phase' = "clamp_returned"
       ELSE /\ ev_list' = vs
            /\ calls' = calls
            /\ phase' = "clamp_loop"

\* A call of clamp_ev_distribution on a dict of EVs.
ClampCall ==
    /\ phase = "init"
    /\ \E d \in ClampInputs : EnterClamp(d[1], d[2])
    /\ UNCHANGED <<statVars, nameVars, menuVars>>

\* One iteration of the while loop (lines 327-341), the break of line 336 included.
ClampIterate ==
    /\ phase = "clamp_loop"
    /\ LoopContinues(total)
    /\ LET found == ScanMax(ev_list, 1, 0, 0)
           stat_to_reduce == found[1]
           max_ev == found[2]
       IN  IF stat_to_reduce = 0 \/ max_ev <= 0
           THEN /\ phase' = "clamp_returned"
                /\ calls' = Append(calls, [arg |-> evs_in, ret |-> evs])
                /\ UNCHANGED <<keys, evs, evs_in, total, ev_list>>
           ELSE /\ evs' = [evs EXCEPT ![stat_to_reduce] = ReducedValue(evs[stat_to_reduce])]
                /\ total' = TotalAfterStep(total)
                /\ ev_list' = evs'
                /\ UNCHANGED <<phase, keys, evs_in, calls>>
    /\ UNCHANGED <<statVars, nameVars, menuVars>>

\* The loop condition fails: return evs (line 342).
ClampReturn ==
    /\ phase = "clamp_loop"
    /\ ~LoopContinues(total)
    /\ phase' = "clamp_returned"
    /\ calls' = Append(calls, [arg |-> evs_in, ret |-> evs])
    /\ UNCHANGED <<keys, evs, evs_in, total, ev_list>>
    /\ UNCHANGED <<statVars, nameVars, menuVars>>

\* clamp_ev_distribution applied to its own result.
ClampAgain ==
    /\ phase = "clamp_returned"
    /\ Len(calls) = 1
    /\ EnterClamp(keys, evs)
    /\ UNCHANGED <<statVars, nameVars, menuVars>>

NextClamp == ClampCall \/ ClampIterate \/ ClampReturn \/ ClampAgain
SpecClamp == Init /\ [][NextClamp]_vars

\* One call of clamp_ev_distribution on a dict whose stats are untrained or trained
\* (nearly) to the end, HP and Speed untrained or full, up to all six at 252: the
\* longest runs of the loop.
ClampCallTrained ==
    /\ phase = "init"
    /\ \E vs \in [1..6 -> EvInputs \ {4}] :
        /\ vs[1] \in {0, 252} /\ vs[6] \in {0, 252}
        /\ EnterClamp(STAT_KEYS, vs)
    /\ UNCHANGED <<statVars, nameVars, menuVars>>

\* A call that has entered the loop keeps running: the interpreter executes the next
\* iteration, or the return, of a function that is neither blocked nor cancelled.
NextClampOnce == ClampCallTrained \/ ClampIterate \/ ClampReturn
SpecClampFair ==
    Init /\ [][NextClampOnce]_vars /\ WF_vars(ClampIterate) /\ WF_vars(ClampReturn)

-----------------------------------------------------------------------------
(* Claims about the clamp *)

\* C5: budget invariant: the mapping clamp_ev_distribution returns has sum <= 510 and
\* every value in it is a non-negative multiple of 4, at most that stat's input value.
C5_Budget ==
    phase = "clamp_returned" =>
        /\ Sum(evs) <= 510
        /\ \A i \in 1..6 : evs[i] >= 0 /\ evs[i] % 4 = 0 /\ evs[i] <= evs_in[i]

C5_Witness ==
    /\ phase = "clamp_returned" /\ Len(calls) = 1
    /\ Sum(evs_in) > 510
    /\ \E i \in 1..6 : evs[i] < evs_in[i]

\* C6: idempotence: clamp_ev_distribution applied to its own result returns that result.
C6_Idempotent ==
    (phase = "clamp_returned" /\ Len(calls) = 2) =>
        /\ calls[2].arg = calls[1].ret
        /\ calls[2].ret = calls[1].ret

C6_Witness ==
    /\ phase = "clamp_returned" /\ Len(calls) = 2
    /\ Sum(calls[1].arg) > 510
    /\ calls[1].ret # calls[1].arg

Scenario5 == [k \in {"hp", "def", "spd"} |-> 0] @@ [k \in {"atk", "spa", "spe"} |-> 252]

\* C7 as stated: for {Attack:252, SpecialAttack:252, Speed:252, HP:0, Defense:0,
\* SpecialDefense:0} the returned mapping totals exactly 510.
C7_TotalExactly510 ==
    (phase = "clamp_returned" /\ Len(calls) = 1 /\ AsMapping(keys, evs_in) = Scenario5) =>
        Sum(evs) = 510

\* C7 amended: for that input (total 756) the returned mapping totals exactly 508, the
\* largest multiple of 4 not above 510.
C7_TotalExactly508 ==
    (phase = "clamp_returned" /\ Len(calls) = 1 /\ AsMapping(keys, evs_in) = Scenario5) =>
        /\ Sum(evs_in) = 756
        /\ Sum(evs) = 508

C7_Witness ==
    /\ phase = "clamp_returned" /\ Len(calls) = 1
    /\ keys = <<"atk", "spa", "spe", "hp", "def", "spd">>
    /\ evs_in = <<252, 252, 252, 0, 0, 0>>
    /\ Sum(evs) = 508

-----------------------------------------------------------------------------
(* The name resolver's actions *)

RECURSIVE StringsUpTo(_)
StringsUpTo(n) ==
    IF n = 0 THEN {<<>>}
    ELSE LET shorter == StringsUpTo(n - 1)
         IN  shorter \cup {Append(s, c) : s \in shorter, c \in RawChars}

RawInputs == StringsUpTo(MaxRawLen)

\* Canonical names: title-cased names as in FALLBACK_NATURES and FALLBACK_TYPES, one of
\* two words as in FALLBACK_RIBBONS, a lower-case id as the keys of Showdown's tables.
NamePool == {<<"A", "b">>, <<"A", "b", "a">>, <<"A", " ", "B">>, <<"a", "b">>}

\* A list of four names close to one another, as the natures or the moves are.
LongList == <<(<<"A", "b">>), (<<"A", "b", "a">>), (<<"A", "b", "a", "b">>), (<<"A", "b", "b", "a">>)>>

\* The canonical lists: 1..MaxListLen names of the pool, none twice, and the long list.
ValidLists ==
    {l \in UNION {[1..n -> NamePool] : n \in 1..MaxListLen} :
        \A i, j \in 1..Len(l) : i # j => l[i] # l[j]}
        \cup {LongList}

\* A call of validate_input, up to its return or its first question.
ValidateInput ==
    /\ phase = "init"
    /\ \E raw \in RawInputs, list \in ValidLists, mode \in 1..3 :
        \E r \in {validate_input(raw, list, mode)} :
            /\ user_input' = raw /\ valid_list' = list /\ autocorrect_mode' = mode
            /\ close' = r.close
            /\ answers' = <<>>
            /\ IF r.returns
               THEN /\ result' = r.value /\ offer' = 0 /\ asked' = <<>>
                    /\ phase' = "validated"
               ELSE /\ result' = <<>> /\ offer' = 1 /\ asked' = <<r.close[1]>>
                    /\ phase' = "prompting"
    /\ UNCHANGED <<statVars, clampVars, menuVars>>

\* The user answers y to the suggestion offered (lines 269-270, 275-276).
AnswerYes ==
    /\ phase = "prompting"
    /\ answers' = Append(answers, TRUE)
    /\ result' = AcceptedSuggestion(close, offer)
    /\ phase' = "validated"
    /\ UNCHANGED <<user_input, valid_list, autocorrect_mode, close, offer, asked>>
    /\ UNCHANGED <<statVars, clampVars, menuVars>>

\* The user answers anything else: the next suggestion is offered, or the trimmed input
\* is returned when none is left (lines 272-278).
AnswerNo ==
    /\ phase = "prompting"
    /\ answers' = Append(answers, FALSE)
    /\ IF offer < Len(close)
       THEN /\ offer' = offer + 1
            /\ asked' = Append(asked, close[offer + 1])
            /\ UNCHANGED <<phase, result>>
       ELSE /\ result' = str_strip(user_input)
            /\ phase' = "validated"
            /\ UNCHANGED <<offer, asked>>
    /\ UNCHANGED <<user_input, valid_list, autocorrect_mode, close>>
    /\ UNCHANGED <<statVars, clampVars, menuVars>>

NextName == ValidateInput \/ AnswerYes \/ AnswerNo
SpecName == Init /\ [][NextName]_vars

\* The whole program: one of the calls above, from the initial state.
\* main, choice 2: settings_menu is entered with main's settings dict.
OpenSettings ==
    /\ phase \in {"init", "main_menu"}
    /\ visits < MaxVisits
    /\ visits' = visits + 1
    /\ settings_at_entry' = settings
    /\ phase' = "settings_menu"
    /\ UNCHANGED <<settings, settings_json, ribbons, left_by>>
    /\ UNCHANGED <<statVars, clampVars, nameVars>>

\* Choices 1, 5, 6, 7 and 8: the boolean is negated in the dict.
ToggleSetting ==
    /\ phase = "settings_menu"
    /\ \/ settings' = [settings EXCEPT !.check_for_ribbon_updates_on_startup = ~@]
       \/ settings' = [settings EXCEPT !.auto_calculate_ivs_from_observed_stats = ~@]
       \/ settings' = [settings EXCEPT !.include_ribbons_if_none = ~@]
       \/ settings' = [settings EXCEPT !.offline_mode = ~@]
       \/ settings' = [settings EXCEPT !.immediate_ribbon_reload_on_url_change = ~@]
    /\ UNCHANGED <<phase, settings_at_entry, settings_json, ribbons, visits, left_by>>
    /\ UNCHANGED <<statVars, clampVars, nameVars>>

\* Choice 2: a URL typed is stored in the dict; with the immediate reload on, the ribbons
\* are downloaded from it, which succeeds or fails.
ChangeRibbonUrl ==
    /\ phase = "settings_menu"
    /\ \E new \in TypedUrls \ {""} :
        /\ settings' = [settings EXCEPT !.ribbon_source_url = new]
        /\ IF settings.immediate_ribbon_reload_on_url_change
           THEN \E ok \in BOOLEAN : ribbons' = IF ok THEN new ELSE ribbons
           ELSE ribbons' = ribbons
    /\ UNCHANGED <<phase, settings_at_entry, settings_json, visits, left_by>>
    /\ UNCHANGED <<statVars, clampVars, nameVars>>

\* Choice 3: the autocorrect mode moves on in its cycle.
CycleAutocorrectMode ==
    /\ phase = "settings_menu"
    /\ settings' = [settings EXCEPT !.autocorrect_mode = NextAutocorrectMode(@)]
    /\ UNCHANGED <<phase, settings_at_entry, settings_json, ribbons, visits, left_by>>
    /\ UNCHANGED <<statVars, clampVars, nameVars>>

\* Choice 4: a number typed in 0..31 becomes the default IV; anything else is refused.
SetDefaultIV ==
    /\ phase = "settings_menu"
    /\ \E val \in TypedIVs :
        /\ val # <<>> /\ 0 <= val[1] /\ val[1] <= 31
        /\ settings' = [settings EXCEPT !.default_iv_value = val[1]]
    /\ UNCHANGED <<phase, settings_at_entry, settings_json, ribbons, visits, left_by>>
    /\ UNCHANGED <<statVars, clampVars, nameVars>>

\* Choice s: save_settings(settings), return settings; main assigns what is returned and
\* saves it again (lines 770-771).
SaveAndReturn ==
    /\ phase = "settings_menu"
    /\ settings_json' = settings
    /\ left_by' = "s"
    /\ phase' = "main_menu"
    /\ UNCHANGED <<settings, settings_at_entry, ribbons, visits>>
    /\ UNCHANGED <<statVars, clampVars, nameVars>>

\* Choice x: return settings, the dict as the edits left it; main assigns what is
\* returned and saves it (lines 770-771).
CancelAndReturn ==
    /\ phase = "settings_menu"
    /\ settings_json' = settings
    /\ left_by' = "x"
    /\ phase' = "main_menu"
    /\ UNCHANGED <<settings, settings_at_entry, ribbons, visits>>
    /\ UNCHANGED <<statVars, clampVars, nameVars>>

\* The choices that change nothing (an empty URL, a refused IV, an unknown option) are
\* stuttering steps.
NextSettings ==
    \/ OpenSettings \/ ToggleSetting \/ ChangeRibbonUrl \/ CycleAutocorrectMode
    \/ SetDefaultIV \/ SaveAndReturn \/ CancelAndReturn
SpecSettings == Init /\ [][NextSettings]_vars

Next == NextStat \/ NextSolve \/ NextArgs \/ NextClamp \/ NextName \/ NextSettings
Spec == Init /\ [][Next]_vars

Scanned == phase \in {"scanned_in_game", "scanned_typed"}

\* The EVs of the range that give the observed stat at IV = max_iv.
MatchesAtKnownIV ==
    {e \in EvRange : calc_stat(base, max_iv, e, level, nature_mult, is_hp) = observed}

\* C14 as stated: for every observed value, base, level, multiplier, isHP and known IV k
\* the fixed-IV scan of generate_set and reverse_calc_iv_ev_for_stat with max_iv = k
\* agree: both find no solution, or both give iv = k with the same ev.
C14_FixedIVIsMaxIV ==
    Scanned =>
        \/ fixed_sol = None /\ sol = None
        \/ fixed_sol # None /\ sol = fixed_sol /\ sol[1] = max_iv

\* C14 amended: the two agree whenever some EV of the range gives the observed value at
\* iv = k: both give iv = k with the lowest such ev; when none does, the fixed-IV scan
\* finds no solution, while the solver finds none or gives a pair with iv < k.
C14_FixedIVIsMaxIVWhenMatched ==
    Scanned =>
        /\ MatchesAtKnownIV # {} =>
              /\ fixed_sol = <<max_iv, Min(MatchesAtKnownIV)>>
              /\ sol = fixed_sol
        /\ MatchesAtKnownIV = {} =>
              /\ fixed_sol = None
              /\ sol = None \/ sol[1] < max_iv

C14_Witness ==
    /\ Scanned /\ max_iv = 1
    /\ sol # None /\ sol = fixed_sol
    /\ sol[1] = 1 /\ sol[2] > 0
    /\ Cardinality(MatchesAtKnownIV) > 1

\* C13: clamp_ev_distribution is a pure function of its argument: after the call the
\* mapping the caller passed in still holds the values it held before the call, also
\* when their total exceeds 510; the reduced values are in the returned mapping only.
C13_ArgumentUntouched ==
    (phase = "clamp_returned" /\ Len(calls) = 1) =>
        /\ evs = evs_in
        /\ calls[1].arg = evs_in

\* The place of a stat in the fixed order HP, Attack, Defense, SpecialAttack,
\* SpecialDefense, Speed.
FixedRank(k) == CHOOSE i \in 1..6 : STAT_KEYS[i] = k

\* C15: every reduction step of clamp_ev_distribution changes exactly one stat: it takes
\* exactly 4 from the stat holding the current maximum EV, the first in the fixed order
\* HP, Attack, Defense, SpecialAttack, SpecialDefense, Speed among those that tie for
\* it; the other five stats are unchanged, and no step is taken once the total is <= 510.
C15_StepReducesFirstMaximum ==
    [][(phase = "clamp_loop" /\ evs' # evs) =>
          /\ Sum(evs) > 510
          /\ \E i \in 1..6 :
                /\ evs'[i] = evs[i] - 4
                /\ \A j \in 1..6 : j # i => evs'[j] = evs[j]
                /\ \A j \in 1..6 : evs[j] <= evs[i]
                /\ \A j \in 1..6 :
                      (j # i /\ evs[j] = evs[i]) => FixedRank(keys[i]) < FixedRank(keys[j])]_vars

C15_Witness ==
    /\ phase = "clamp_loop"
    /\ keys = STAT_KEYS
    /\ evs_in = <<0, 252, 4, 252, 0, 252>>
    /\ evs = <<0, 244, 4, 248, 0, 248>>

\* C16: clamp_ev_distribution always terminates: on every input of non-negative
\* multiples of 4 the locally tracked total equals the real sum of the mapping at every
\* iteration, each iteration either lowers the total by exactly 4 or exits, the loop is
\* left as soon as the total is <= 510 or no stat holds an EV > 0, and every call that
\* entered the loop returns.
C16_Terminates ==
    /\ [](phase = "clamp_loop" => total = Sum(evs))
    /\ [][phase = "clamp_loop" =>
            \/ /\ phase' = "clamp_loop"
               /\ total > 510 /\ \E i \in 1..6 : evs[i] > 0
               /\ total' = total - 4
               /\ Sum(evs') = Sum(evs) - 4
            \/ /\ phase' = "clamp_returned"
               /\ total <= 510 \/ \A i \in 1..6 : evs[i] <= 0
               /\ evs' = evs]_vars
    /\ (phase = "clamp_loop") ~> (phase = "clamp_returned")

C16_Witness ==
    /\ phase = "clamp_returned" /\ Len(calls) = 1
    /\ Sum(evs_in) = 1512
    /\ total = 508 /\ Sum(evs) = 508

\* C17 as stated: clamp_ev_distribution preserves the relative investment ranking: for
\* any two stats s and t, if s holds strictly more EV than t in the input then s does
\* not hold strictly less EV than t in the output.
C17_RankingPreserved ==
    phase = "clamp_returned" =>
        \A s, t \in 1..6 : evs_in[s] > evs_in[t] => ~(evs[s] < evs[t])

\* C17 amended: the ranking is preserved up to one step: if s holds strictly more EV
\* than t in the input, then in the output s holds at least the EV of t less 4, and at
\* least the EV of t when t is scanned before s.
C17_RankingPreservedUpToAStep ==
    phase = "clamp_returned" =>
        \A s, t \in 1..6 :
            evs_in[s] > evs_in[t] =>
                /\ evs[s] >= evs[t] - 4
                /\ t < s => evs[s] >= evs[t]

C17_Witness ==
    /\ phase = "clamp_returned" /\ Len(calls) = 1
    /\ keys = STAT_KEYS
    /\ evs_in = <<252, 248, 4, 4, 4, 4>>
    /\ evs = <<244, 248, 4, 4, 4, 4>>

\* C19: for every input of non-negative multiples of 4 whose total exceeds 510 the
\* returned mapping totals exactly 508, the largest multiple of 4 not above the cap; an
\* input whose total is <= 510 is returned with every value unchanged.
C19_Exactly508OrUnchanged ==
    (phase = "clamp_returned" /\ Len(calls) >= 1) =>
        \A n \in 1..Len(calls) :
            /\ Sum(calls[n].arg) > 510 => Sum(calls[n].ret) = 508
            /\ Sum(calls[n].arg) <= 510 => calls[n].ret = calls[n].arg

C19_Witness ==
    /\ phase = "clamp_returned" /\ Len(calls) = 2
    /\ Sum(calls[1].arg) = 512 /\ Sum(calls[1].ret) = 508
    /\ Sum(calls[2].arg) = 508 /\ calls[2].ret = calls[2].arg

\* C18: choosing x in the settings menu discards the edits made in that visit: the
\* settings the main loop uses afterwards and the settings written to settings.json
\* equal the settings as they were when the menu was entered; only s makes edits take
\* effect and persist.
C18_CancelDiscardsEdits ==
    (phase = "main_menu" /\ left_by = "x") =>
        /\ settings = settings_at_entry
        /\ settings_json = settings_at_entry

\* The preconditions of calc_stat and of the reverse solver.
CalcStatPreconditions ==
    base >= 0 /\ iv \in 0..31 /\ ev \in 0..252 /\ level \in 1..100

ReverseCalcPreconditions ==
    base >= 0 /\ max_iv \in 0..31 /\ level \in 1..100

\* C12: a call of calc_stat or reverse_calc_iv_ev_for_stat with an argument outside the
\* preconditions (level outside 1..100, iv or max_iv outside 0..31, ev outside 0..252,
\* negative base) ends in an invalid-argument outcome; no stat value and no (iv, ev)
\* pair is produced from it.
C12_InvalidArgument ==
    /\ (phase = "calc_any_done" /\ ~CalcStatPreconditions) => outcome = "invalid_argument"
    /\ (phase = "solve_any_done" /\ ~ReverseCalcPreconditions) =>
          (outcome = "invalid_argument" /\ sol = None)

-----------------------------------------------------------------------------
(* Claims about the name resolver *)

Called == phase \in {"validated", "prompting"}

\* The raw input trimmed, its underscores replaced by spaces.
TrimmedSpaced(raw) == str_replace_underscore(str_strip(raw))

\* The form the code compares: trimmed, underscores replaced by spaces, trimmed again.
Normalised(raw) == str_strip(str_replace_underscore(str_strip(raw)))

\* An exact match: the normalised input equals an entry ignoring case, or its title-cased
\* form is an entry.
ExactMatch(raw, list) ==
    \E i \in 1..Len(list) :
        \/ str_lower(list[i]) = str_lower(Normalised(raw))
        \/ list[i] = str_title(Normalised(raw))

\* a/b <= c/d for fractions <<a, b>>, <<c, d>> with positive denominators
FractionLeq(r, q) == r[1] * q[2] <= q[1] * r[2]

\* The entries of the list whose similarity to the title-cased input is at least 0.65.
FuzzyCandidates(raw, list) ==
    {x \in {list[i] : i \in 1..Len(list)} :
        LET r == Ratio(x, str_title(Normalised(raw))) IN 20 * r[1] >= 13 * r[2]}

\* The positions of the entries that contain the lower-cased normalised input.
SubstringPositions(raw, list) ==
    {i \in 1..Len(list) : str_contains(str_lower(Normalised(raw)), str_lower(list[i]))}

\* What the silent policy is to return when there is no exact match: a fuzzy candidate
\* of the highest similarity, else the first substring match, else the trimmed input.
IsSilentAnswer(r, raw, list) ==
    LET fuzzy == FuzzyCandidates(raw, list)
        subs == SubstringPositions(raw, list)
        word == str_title(Normalised(raw))
    IN  IF fuzzy # {}
        THEN r \in fuzzy /\ \A y \in fuzzy : FractionLeq(Ratio(y, word), Ratio(r, word))
        ELSE IF subs # {}
        THEN r = list[Min(subs)]
        ELSE r = str_strip(raw)

\* C8: resolution identity: when the raw input (trimmed, underscores replaced by spaces)
\* equals an entry of the canonical list ignoring case, validate_input returns such an
\* entry in its canonical spelling under every policy, and asks nothing.
C8_ResolutionIdentity ==
    (Called /\ \E i \in 1..Len(valid_list) :
                  str_lower(valid_list[i]) = str_lower(TrimmedSpaced(user_input))) =>
        /\ phase = "validated" /\ asked = <<>>
        /\ \E i \in 1..Len(valid_list) :
              /\ result = valid_list[i]
              /\ str_lower(valid_list[i]) = str_lower(TrimmedSpaced(user_input))

C8_Witness ==
    /\ phase = "validated" /\ autocorrect_mode = 3
    /\ user_input = <<"a", "_", "b">>
    /\ valid_list = <<(<<"A", "b">>), (<<"A", " ", "B">>)>>
    /\ result = <<"A", " ", "B">>

\* C9 as stated: under the off policy validate_input returns the trimmed raw input
\* unchanged, for every raw input and every canonical list.
C9_OffPassive ==
    (Called /\ autocorrect_mode = 3) =>
        (phase = "validated" /\ result = str_strip(user_input))

\* C9 amended: under the off policy validate_input returns the trimmed raw input
\* unchanged whenever the input has no exact match in the canonical list, even when
\* suggestions exist, and asks nothing.
C9_OffPassiveWithoutExactMatch ==
    (Called /\ autocorrect_mode = 3 /\ ~ExactMatch(user_input, valid_list)) =>
        /\ phase = "validated" /\ asked = <<>>
        /\ result = str_strip(user_input)

C9_Witness ==
    /\ phase = "validated" /\ autocorrect_mode = 3
    /\ ~ExactMatch(user_input, valid_list)
    /\ FuzzyCandidates(user_input, valid_list) # {}
    /\ close # <<>>
    /\ result = str_strip(user_input) /\ result # close[1]

\* C10 as stated: under the silent policy, when no exact match exists, validate_input
\* returns the top-ranked candidate whenever a candidate exists, without asking, and the
\* trimmed raw input when there is none.
C10_SilentTopCandidate ==
    (Called /\ autocorrect_mode = 2 /\ ~ExactMatch(user_input, valid_list)) =>
        /\ phase = "validated" /\ asked = <<>>
        /\ IsSilentAnswer(result, user_input, valid_list)

\* C10 amended: the same for every non-empty raw input; an empty raw input is returned
\* as it is.
C10_SilentTopCandidateNonEmpty ==
    (Called /\ autocorrect_mode = 2 /\ ~ExactMatch(user_input, valid_list)) =>
        /\ phase = "validated" /\ asked = <<>>
        /\ user_input # <<>> => IsSilentAnswer(result, user_input, valid_list)
        /\ user_input = <<>> => result = <<>>

C10_Witness ==
    /\ phase = "validated" /\ autocorrect_mode = 2
    /\ ~ExactMatch(user_input, valid_list)
    /\ Cardinality(FuzzyCandidates(user_input, valid_list)) = 2
    /\ result = close[1] /\ result # str_strip(user_input)
    /\ ~FractionLeq(Ratio(result, str_title(Normalised(user_input))),
                    Ratio(close[2], str_title(Normalised(user_input))))

\* The number of candidates to offer: the fuzzy candidates when there are any, else the
\* substring matches, and three at most.
CandidateCount(raw, list) ==
    LET fuzzy == FuzzyCandidates(raw, list)
        subs == SubstringPositions(raw, list)
        n == IF fuzzy # {} THEN Cardinality(fuzzy) ELSE Cardinality(subs)
    IN  IF n > 3 THEN 3 ELSE n

\* seq is a start of the candidates in rank order: fuzzy candidates by similarity, the
\* highest first and none twice; else the substring matches in the order of the list.
IsRankedOffer(seq, raw, list) ==
    LET fuzzy == FuzzyCandidates(raw, list)
        subs == SubstringPositions(raw, list)
        word == str_title(Normalised(raw))
    IN  IF fuzzy # {}
        THEN \A i \in 1..Len(seq) :
                /\ seq[i] \in fuzzy
                /\ \A j \in 1..Len(seq) : j # i => seq[j] # seq[i]
                /\ \A y \in fuzzy \ {seq[j] : j \in 1..i} :
                      FractionLeq(Ratio(y, word), Ratio(seq[i], word))
        ELSE \A i \in 1..Len(seq) :
                \E p \in subs : /\ seq[i] = list[p]
                                /\ Cardinality({q \in subs : q < p}) = i - 1

\* The offers and the answers of a prompt-mode call, and what it returns: the candidates
\* one at a time in rank order from the top, three at most; nothing offered after a yes,
\* which returns the candidate accepted; the trimmed input once all are declined or
\* when there is none.
IsPromptDialogue(raw, list) ==
    LET n == CandidateCount(raw, list) IN
    /\ Len(asked) <= 3 /\ Len(asked) <= n
    /\ IsRankedOffer(asked, raw, list)
    /\ n = 0 => (phase = "validated" /\ asked = <<>> /\ result = str_strip(raw))
    /\ n > 0 => asked # <<>>
    /\ phase = "prompting" =>
          /\ Len(answers) = Len(asked) - 1
          /\ \A i \in 1..Len(answers) : ~answers[i]
    /\ (phase = "validated" /\ n > 0) =>
          /\ Len(answers) = Len(asked)
          /\ \A i \in 1..(Len(answers) - 1) : ~answers[i]
          /\ answers[Len(answers)] => result = asked[Len(asked)]
          /\ ~answers[Len(answers)] => (Len(asked) = n /\ result = str_strip(raw))

\* C11 as stated: under the prompt policy validate_input offers the candidates (at most
\* 3) one at a time in rank order starting with the top candidate, returns the first
\* candidate the user accepts and offers none after an acceptance, returns the trimmed
\* raw input if every offered candidate is declined, and asks nothing and returns the
\* raw input when there are no candidates.
C11_PromptDialogue ==
    (Called /\ autocorrect_mode = 1 /\ ~ExactMatch(user_input, valid_list)) =>
        IsPromptDialogue(user_input, valid_list)

\* C11 amended: the same for every non-empty raw input; an empty raw input is returned
\* as it is and nothing is asked, whatever the list holds.
C11_PromptDialogueNonEmpty ==
    (Called /\ autocorrect_mode = 1 /\ ~ExactMatch(user_input, valid_list)) =>
        /\ user_input # <<>> => IsPromptDialogue(user_input, valid_list)
        /\ user_input = <<>> => (phase = "validated" /\ asked = <<>> /\ result = <<>>)

C11_Witness ==
    /\ phase = "validated" /\ autocorrect_mode = 1
    /\ ~ExactMatch(user_input, valid_list)
    /\ Cardinality(FuzzyCandidates(user_input, valid_list)) = 4
    /\ answers = <<FALSE, FALSE, TRUE>>
    /\ asked = <<(<<"A", "b", "b", "a">>), (<<"A", "b", "a", "b">>), (<<"A", "b">>)>>
    /\ result = <<"A", "b">>

====
